---- MODULE Spec2Model ----
(***************************************************************************)
(* Stroke_Prediction: the serving endpoint of main.py and the evaluation   *)
(* helpers of help_tool/help_tool.py.                                      *)
(*                                                                         *)
(* Real numbers are kept exact.  A probability is an integer number of     *)
(* millionths (Scale), a margin is an integer, and a ratio such as a       *)
(* recall or an AUC is a pair <<numerator, denominator>>.                  *)
(***************************************************************************)
EXTENDS Integers, Sequences, FiniteSets, TLC

VARIABLES
    http,      \* main.py: the last request served and its response
    ev,        \* help_tool.py: the last call of model_selection_recall or plot_roc_curve
    frame,     \* help_tool.py: the last call of dummy_columns
    threshold_table  \* the caller's ThresholdTable: classifier name -> threshold

vars == <<http, ev, frame, threshold_table>>

(***************************************************************************)
(* Bounds of the model                                                     *)
(***************************************************************************)
\* Probabilities served lie within ProbaSpread millionths of the threshold
\* (besides the two extremes 0 and 1).
ProbaSpread == 60

\* Rows of the validation set handed to an evaluation helper; the training set
\* has one row fewer.
MaxRows == 3

\* cross_validation_plots: rows of the data set, fold count asked for, and
\* classifiers handed over.
MaxCvRows == 5
MaxFold == 3

\* cross_validation_matrix: the data set has up to MaxExtraRows rows more
\* than the ten folds, and at most that many rows of its rarer class.
MaxExtraRows == 2

\* dummy_columns: rows of the data frame.
MaxFrameRows == 2

(***************************************************************************)
(* Numbers                                                                 *)
(***************************************************************************)
\* One unit of probability: 1.0 is Scale millionths.
Scale == 1000000

\* main.py:50, the literal 0.545455 in millionths.
Threshold == 545455

\* sklearn's predict of a probabilistic binary classifier is the argmax of
\* predict_proba: class 1 iff its probability exceeds one half.
Half == 500000

\* Nothing served yet; no helper called yet.
NoRequest == [endpoint |-> "none", proba |-> 0, body |-> <<>>]
NoCall == [op |-> "none"]


(***************************************************************************)
(* Exact arithmetic                                                        *)
(***************************************************************************)
RECURSIVE Gcd(_, _)
Gcd(a, b) == IF b = 0 THEN a ELSE Gcd(b, a % b)

\* The ratio n/d in lowest terms; "nan" stands for numpy's nan.
Ratio(n, d) == LET g == Gcd(n, d) IN <<n \div g, d \div g>>
Zero == <<0, 1>>
NaN == <<0, 0>>

\* Python's format of a float to a fixed number of decimals: q = n*10^k/d
\* rounded to the nearest integer, a tie going to the even neighbour.
RoundHalfEven(n, d) ==
    LET q == n \div d
        r == n % d
    IN  IF 2 * r < d THEN q
        ELSE IF 2 * r > d THEN q + 1
        ELSE IF q % 2 = 0 THEN q ELSE q + 1

\* f"{x:.2%}": hundredths of a percent.
FormatPercent2(x) == IF x = NaN THEN "nan" ELSE RoundHalfEven(10000 * x[1], x[2])

\* f"{x:.2f}": hundredths; nan prints as "nan".
FormatFixed2(x) == IF x = NaN THEN "nan" ELSE RoundHalfEven(100 * x[1], x[2])

Rows(v) == 1..Len(v)
Count(v, S) == Cardinality({i \in Rows(v) : v[i] \in S})

(***************************************************************************)
(* The classifier handed to a helper.  It is opaque: on the rows of a      *)
(* feature matrix it answers a level per row (z), from which its           *)
(* predict, decision_function and predict_proba outputs are read.  kind    *)
(* says which of decision_function and predict_proba the object has.       *)
(***************************************************************************)
Kinds == {"margin", "proba", "both", "neither"}
Levels == 1..3
MarginOf == <<-2, 1, 3>>
ProbaOf == <<200000, 520000, 900000>>

\* hasattr(model, 'decision_function')
HasDecisionFunction(kind) == kind \in {"margin", "both"}
HasPredictProba(kind) == kind \in {"proba", "both"}

decision_function(z) == [i \in Rows(z) |-> MarginOf[z[i]]]
predict_proba_1(z) == [i \in Rows(z) |-> ProbaOf[z[i]]]

\* model.predict: the sign of the margin, or the more probable class.
model_predict(kind, z) ==
    [i \in Rows(z) |->
        IF HasDecisionFunction(kind)
        THEN (IF MarginOf[z[i]] > 0 THEN 1 ELSE 0)
        ELSE (IF ProbaOf[z[i]] > Half THEN 1 ELSE 0)]

(***************************************************************************)
(* sklearn.metrics as the helpers call it                                  *)
(***************************************************************************)
recall_score_undefined(y_true, y_pred) ==
    LET tp == Cardinality({i \in Rows(y_true) : y_true[i] = 1 /\ y_pred[i] = 1})
        pos == Count(y_true, {1})
    IN  IF pos = 0 THEN NaN ELSE Ratio(tp, pos)

\* recall_score(y_true, y_pred): of the rows whose FIRST argument is 1, the
\* share whose second argument is 1 too; 0 (and a warning) when there is none.
recall_score(y_true, y_pred) ==
    LET tp == Cardinality({i \in Rows(y_true) : y_true[i] = 1 /\ y_pred[i] = 1})
        pos == Count(y_true, {1})
    IN  IF pos = 0 THEN Zero ELSE Ratio(tp, pos)

RECURSIVE Descending(_)
Descending(S) ==
    IF S = {} THEN <<>>
    ELSE LET m == CHOOSE x \in S : \A y \in S : y <= x
         IN  <<m>> \o Descending(S \ {m})

\* roc_curve(y_true, y_score): one point per distinct score, highest first,
\* counting the positives (tps) and negatives (fps) scored at least that
\* high; points on a straight segment are dropped (drop_intermediate); the
\* origin is put in front.
roc_curve(y_true, y_score) ==
    LET th == Descending({y_score[i] : i \in Rows(y_score)})
        tp(k) == Cardinality({i \in Rows(y_true) : y_true[i] = 1 /\ y_score[i] >= th[k]})
        fp(k) == Cardinality({i \in Rows(y_true) : y_true[i] # 1 /\ y_score[i] >= th[k]})
        n == Len(th)
        keep == {k \in 1..n :
                    \/ k = 1
                    \/ k = n
                    \/ fp(k + 1) - 2 * fp(k) + fp(k - 1) # 0
                    \/ tp(k + 1) - 2 * tp(k) + tp(k - 1) # 0}
        idx == Descending({0 - k : k \in keep})
    IN  [fps |-> <<0>> \o [j \in 1..Len(idx) |-> fp(0 - idx[j])],
         tps |-> <<0>> \o [j \in 1..Len(idx) |-> tp(0 - idx[j])],
         neg |-> Count(y_true, {0}),
         pos |-> Count(y_true, {1})]

RECURSIVE Trapezoid(_, _, _)
Trapezoid(x, y, k) ==
    IF k < 2 THEN 0
    ELSE (x[k] - x[k - 1]) * (y[k] + y[k - 1]) + Trapezoid(x, y, k - 1)

\* auc(fpr, tpr): the trapezoidal area under the points, fpr = fps/neg and
\* tpr = tps/pos; nan when the labels hold one class only.
auc(curve) ==
    IF curve.neg = 0 \/ curve.pos = 0 THEN NaN
    ELSE Ratio(Trapezoid(curve.fps, curve.tps, Len(curve.fps)),
               2 * curve.neg * curve.pos)

(***************************************************************************)
(* main.py                                                                 *)
(***************************************************************************)
\* The positive-class probabilities the loaded model may return for a row.
Probabilities ==
    {0, Scale} \cup
    {p \in (Threshold - ProbaSpread)..(Threshold + ProbaSpread) : p >= 0 /\ p <= Scale}

\* main.py:50  (predictions > 0.545455).astype(int)
adjusted_predictions_ge(predictions) ==
    IF predictions >= Threshold THEN 1 ELSE 0

adjusted_predictions(predictions) ==
    IF predictions > Threshold THEN 1 ELSE 0

\* main.py:38-40  GET /
home ==
    /\ http' = [endpoint |-> "/",
                proba |-> 0,
                body |-> [message |-> "Stroke Prediction App", model_version |-> "0.1"]]
    /\ UNCHANGED <<ev, frame, threshold_table>>

\* main.py:45-53  POST /predict with a payload that passed validation; the
\* loaded model answers predict_proba(cust_df)[0, 1] = predictions.
predict(predictions) ==
    /\ http' = [endpoint |-> "/predict",
                proba |-> predictions,
                body |-> [default_proba |-> adjusted_predictions(predictions)]]
    /\ UNCHANGED <<ev, frame, threshold_table>>

InitServe ==
    /\ http = NoRequest
    /\ ev = NoCall
    /\ frame = NoCall
    /\ threshold_table = <<>>

NextServe ==
    \/ home
    \/ \E p \in Probabilities : predict(p)

SpecServe == InitServe /\ [][NextServe]_vars

\* C1: the response of POST /predict carries default_proba = 1 exactly when the
\* model's positive-class probability is strictly above 0.545455, and 0
\* otherwise (also at exactly 0.545455); nothing but 0 or 1 is returned.
C1_PredictBinarized ==
    http.endpoint = "/predict" =>
        /\ http.body.default_proba \in {0, 1}
        /\ (http.body.default_proba = 1) <=> (http.proba > Threshold)

\* The request whose probability is exactly the threshold was served.
C1_Witness ==
    /\ http.endpoint = "/predict"
    /\ http.proba = Threshold
    /\ http.body.default_proba = 0

(***************************************************************************)
(* help_tool.py: model_selection_recall and plot_roc_curve                 *)
(***************************************************************************)
Labels(n) == [1..n -> {0, 1}]
LevelRows(n) == [1..n -> Levels]

\* A training set as recall_score sees it: the classifier's predict output
\* and the labels, row by row.  recall_score only counts rows, so the rows
\* are listed in one order: predicted 0 before predicted 1, and label 0
\* before label 1 among equal predictions.
TrainSets(n) ==
    {t \in [pred : Labels(n), y : Labels(n)] :
        \A i \in 1..(n - 1) :
            2 * t.pred[i] + t.y[i] <= 2 * t.pred[i + 1] + t.y[i + 1]}

\* score > threshold, the rule main.py serves with.
decide(score, threshold) == IF score > threshold THEN 1 ELSE 0

predicted_labels_thresholded(kind, z) ==
    [i \in Rows(z) |->
        IF HasDecisionFunction(kind) THEN decide(MarginOf[z[i]] * Scale, Threshold)
        ELSE decide(ProbaOf[z[i]], Threshold)]

\* help_tool.py:250-251  model.predict(X): the labels the recall is computed from.
predicted_labels(kind, z) == model_predict(kind, z)

\* help_tool.py:250-251  the two arguments handed to recall_score, in the
\* order the call hands them over.
recall_args(predicted, y) == <<predicted, y>>

y_prob_of_proba_first(kind, z) ==
    IF HasPredictProba(kind)
    THEN [raised |-> "none", score |-> predict_proba_1(z)]
    ELSE IF HasDecisionFunction(kind)
    THEN [raised |-> "none", score |-> decision_function(z)]
    ELSE [raised |-> "AttributeError", score |-> <<>>]

y_prob_of_binarized(kind, z) ==
    IF HasDecisionFunction(kind) \/ HasPredictProba(kind)
    THEN [raised |-> "none", score |-> model_predict(kind, z)]
    ELSE [raised |-> "AttributeError", score |-> <<>>]

\* help_tool.py:253-256  the score handed to roc_curve.
y_prob_of(kind, z) ==
    IF HasDecisionFunction(kind)
    THEN [raised |-> "none", score |-> decision_function(z)]
    ELSE IF HasPredictProba(kind)
    THEN [raised |-> "none", score |-> predict_proba_1(z)]
    ELSE [raised |-> "AttributeError", score |-> <<>>]

\* help_tool.py:321-324  the same choice in plot_roc_curve.
plot_y_prob_of(kind, z) ==
    IF HasDecisionFunction(kind)
    THEN [raised |-> "none", score |-> decision_function(z)]
    ELSE IF HasPredictProba(kind)
    THEN [raised |-> "none", score |-> predict_proba_1(z)]
    ELSE [raised |-> "AttributeError", score |-> <<>>]

\* help_tool.py:245-263.  predict answers for every kind of classifier; a
\* classifier with neither scoring method raises at line 256, before
\* anything is printed.
model_selection_recall(kind, predict_train, y_train, z_validation, y_validation) ==
    LET a_train == recall_args(predict_train, y_train)
        a_validation == recall_args(predicted_labels(kind, z_validation), y_validation)
        train_recall == recall_score(a_train[1], a_train[2])
        validation_recall == recall_score(a_validation[1], a_validation[2])
        y_prob == y_prob_of(kind, z_validation)
        args == [kind |-> kind, predict_train |-> predict_train, y_train |-> y_train,
                 z_validation |-> z_validation, y_validation |-> y_validation]
    IN  /\ ev' = IF y_prob.raised # "none"
                 THEN [op |-> "model_selection_recall", args |-> args,
                       raised |-> y_prob.raised, printed |-> <<>>]
                 ELSE LET roc_auc == auc(roc_curve(y_validation, y_prob.score))
                      IN  [op |-> "model_selection_recall", args |-> args,
                           raised |-> "none",
                           recall_true |-> <<a_train[1], a_validation[1]>>,
                           recall_pred |-> <<a_train[2], a_validation[2]>>,
                           train_recall |-> train_recall,
                           validation_recall |-> validation_recall,
                           y_prob |-> y_prob.score,
                           roc_auc |-> roc_auc,
                           printed |-> <<FormatPercent2(train_recall),
                                         FormatPercent2(validation_recall),
                                         FormatFixed2(roc_auc)>>]
        /\ UNCHANGED <<http, frame, threshold_table>>

\* help_tool.py:319-329
plot_roc_curve(kind, z, y_train, label) ==
    LET y_prob == plot_y_prob_of(kind, z)
        args == [kind |-> kind, z |-> z, y_train |-> y_train, label |-> label]
    IN  /\ ev' = IF y_prob.raised # "none"
                 THEN [op |-> "plot_roc_curve", args |-> args,
                       raised |-> y_prob.raised, printed |-> <<>>]
                 ELSE LET roc_auc == auc(roc_curve(y_train, y_prob.score))
                      IN  [op |-> "plot_roc_curve", args |-> args,
                           raised |-> "none",
                           y_prob |-> y_prob.score,
                           roc_auc |-> roc_auc,
                           printed |-> <<label, FormatFixed2(roc_auc)>>]
        /\ UNCHANGED <<http, frame, threshold_table>>

\* The helper has returned (or raised); the notebook goes on to its next cell.
NextCell ==
    /\ ev.op # "none"
    /\ ev' = NoCall
    /\ UNCHANGED <<http, frame, threshold_table>>

InitEval ==
    /\ http = NoRequest
    /\ ev = NoCall
    /\ frame = NoCall
    /\ threshold_table = <<>>

\* A notebook cell calls one helper and waits for it.
NextEval ==
    \/ /\ ev.op = "none"
       /\ \E kind \in Kinds, train \in TrainSets(MaxRows - 1),
             z_validation \in LevelRows(MaxRows), y_validation \in Labels(MaxRows) :
               model_selection_recall(kind, train.pred, train.y, z_validation, y_validation)
    \/ /\ ev.op = "none"
       /\ \E kind \in Kinds, z \in LevelRows(MaxRows), y \in Labels(MaxRows) :
               plot_roc_curve(kind, z, y, "clf")
    \/ NextCell

SpecEval == InitEval /\ [][NextEval]_vars

(***************************************************************************)
(* help_tool.py: cross_validation_plots and cross_validation_matrix        *)
(*                                                                         *)
(* The classifiers are learners refitted on every fold.  X has one         *)
(* feature, the row's position.                                            *)
(***************************************************************************)
\* classifiers[index].__class__.__name__
Learners == {"DummyClassifier", "KNeighborsClassifier"}

\* The classifiers argument: one learner, or the two in either order.
ClassifierLists ==
    {<<a>> : a \in Learners} \cup {<<p[1], p[2]>> : p \in {q \in Learners \X Learners : q[1] # q[2]}}

\* The caller's threshold tables: the threshold of the DummyClassifier, with
\* or without one for the KNeighborsClassifier.
ThresholdTables ==
    {[c \in S |-> Threshold] : S \in {{"DummyClassifier"}, Learners}}

\* fit on the rows train, then predict row i.  DummyClassifier answers the
\* more frequent training label (0 on a tie); KNeighborsClassifier with one
\* neighbour answers the label of the nearest training row (the earlier
\* one on a tie).
fit_predict(learner, train, y, i) ==
    IF learner = "DummyClassifier"
    THEN (IF 2 * Cardinality({j \in train : y[j] = 1}) > Cardinality(train) THEN 1 ELSE 0)
    ELSE LET Dist(j) == IF j > i THEN j - i ELSE i - j
             nearest == CHOOSE j \in train :
                            \A k \in train : Dist(j) < Dist(k) \/ (Dist(j) = Dist(k) /\ j <= k)
         IN  y[nearest]

\* KFold(n_splits) without shuffling: consecutive blocks, the first
\* n % n_splits of them one row longer.  The fold (1..n_splits) testing row r.
kfold_test_fold(n_splits, n, r) ==
    LET size == n \div n_splits
        long == n % n_splits
    IN  IF r <= long * (size + 1)
        THEN (r - 1) \div (size + 1) + 1
        ELSE long + (r - 1 - long * (size + 1)) \div size + 1

\* StratifiedKFold(n_splits) without shuffling.  The classes are numbered in
\* order of appearance; the sorted class numbers are dealt round-robin to the
\* folds, which fixes how many rows of each class a fold tests; the rows of
\* a class then fill the folds in row order.
stratified_test_fold(n_splits, y, r) ==
    LET n == Len(y)
        code(i) == IF y[i] = y[1] THEN 0 ELSE 1
        n0 == Cardinality({i \in 1..n : code(i) = 0})
        \* positions 0..n-1 of the sorted class numbers that hold class c
        held(c) == IF c = 0 THEN 0..(n0 - 1) ELSE n0..(n - 1)
        allocation(f, c) == Cardinality({q \in held(c) : q % n_splits = f - 1})
        rank == Cardinality({i \in 1..(r - 1) : code(i) = code(r)})
        before(f) == Cardinality({q \in held(code(r)) : q % n_splits < f - 1})
    IN  CHOOSE f \in 1..n_splits :
            before(f) <= rank /\ rank < before(f) + allocation(f, code(r))

\* check_cv(cv, y, classifier=True) and split: an integer cv is a
\* StratifiedKFold, which wants as many rows as folds and a class with as
\* many members as folds; a KFold object wants as many rows as folds.
split_raises(fold, y) ==
    \/ fold.n_splits > Len(y)
    \/ /\ fold.cv = "int"
       /\ \A c \in {y[i] : i \in Rows(y)} : fold.n_splits > Count(y, {c})

test_fold(fold, y, r) ==
    IF fold.cv = "int" THEN stratified_test_fold(fold.n_splits, y, r)
    ELSE kfold_test_fold(fold.n_splits, Len(y), r)

cv_splits_leaky(n_splits, tested_by) ==
    [f \in 1..n_splits |->
        [test |-> {r \in Rows(tested_by) : tested_by[r] = f},
         train |-> {r \in Rows(tested_by) : tested_by[r] # f \/ r = 1}]]

\* The fold testing each row.
test_folds(fold, y) == [r \in Rows(y) |-> test_fold(fold, y, r)]

\* The splits of a cross-validation: per fold, the rows trained on and the
\* rows tested.
cv_splits(n_splits, tested_by) ==
    [f \in 1..n_splits |->
        [test |-> {r \in Rows(tested_by) : tested_by[r] = f},
         train |-> {r \in Rows(tested_by) : tested_by[r] # f}]]

\* precision_score(y_true, y_pred): of the rows predicted 1, the share whose
\* label is 1 too; 0 (and a warning) when none is predicted 1.
precision_score(y_true, y_pred) == recall_score(y_pred, y_true)

accuracy_score(y_true, y_pred) ==
    Ratio(Cardinality({i \in Rows(y_true) : y_true[i] = y_pred[i]}), Len(y_true))

RECURSIVE Ascending(_)
Ascending(S) ==
    IF S = {} THEN <<>>
    ELSE LET m == CHOOSE x \in S : \A v \in S : x <= v
         IN  <<m>> \o Ascending(S \ {m})

\* confusion_matrix(y_true, y_pred): rows are the true labels and columns the
\* predicted ones, over the labels that occur in either, in ascending order.
confusion_matrix(y_true, y_pred) ==
    LET labels == Ascending({y_true[i] : i \in Rows(y_true)} \cup {y_pred[i] : i \in Rows(y_pred)})
    IN  [a \in 1..Len(labels) |-> [b \in 1..Len(labels) |->
            Cardinality({i \in Rows(y_true) : y_true[i] = labels[a] /\ y_pred[i] = labels[b]})]]

\* cross_val_score(clf, X, y, cv=fold, scoring=...): per fold, the learner is
\* fitted on the training rows, predicts the tested rows, and is scored.
cross_val_score(learner, splits, y, scoring) ==
        [f \in Rows(splits) |->
            LET tested == Ascending(splits[f].test)
                y_test == [j \in Rows(tested) |-> y[tested[j]]]
                y_pred == [j \in Rows(tested) |->
                              fit_predict(learner, splits[f].train, y, tested[j])]
            IN  IF scoring = "accuracy" THEN accuracy_score(y_test, y_pred)
                ELSE IF scoring = "precision" THEN precision_score(y_test, y_pred)
                ELSE recall_score(y_test, y_pred)]

\* cross_val_predict(classifier, X, y, cv): every row's prediction by the
\* learner fitted on the training rows of the fold that tests the row.
cross_val_predict(learner, splits, tested_by, y) ==
    [i \in Rows(y) |-> fit_predict(learner, splits[tested_by[i]].train, y, i)]

\* The fits a helper has run: classifier index, scoring, fold.
fits_run_gated(classifiers, scorings, fold) ==
    IF \A i \in Rows(classifiers) : classifiers[i] \in DOMAIN threshold_table
    THEN Rows(classifiers) \X scorings \X (1..fold.n_splits)
    ELSE {}

fits_run(classifiers, scorings, fold) ==
    Rows(classifiers) \X scorings \X (1..fold.n_splits)

\* np.mean of per-fold ratios.
RECURSIVE SumRatios(_, _)
SumRatios(v, k) ==
    IF k = 0 THEN Zero
    ELSE LET rest == SumRatios(v, k - 1)
         IN  Ratio(rest[1] * v[k][2] + v[k][1] * rest[2], rest[2] * v[k][2])

Mean(v) == LET t == SumRatios(v, Len(v)) IN Ratio(t[1], t[2] * Len(v))

\* np.std squared: the mean of the squared deviations from the mean.
Variance(v) ==
    LET m == Mean(v)
        dev == [k \in Rows(v) |->
                   LET d == v[k][1] * m[2] - m[1] * v[k][2]
                   IN  Ratio(d * d, v[k][2] * m[2] * v[k][2] * m[2])]
    IN  Mean(dev)

Scorings == {"accuracy", "precision", "recall"}

\* help_tool.py:345-385
cross_validation_plots(classifiers, fold, y, metric) ==
    LET args == [classifiers |-> classifiers, fold |-> fold, y |-> y, metric |-> metric]
    IN  /\ ev' = IF split_raises(fold, y)
                 THEN [op |-> "cross_validation_plots", args |-> args,
                       raised |-> "ValueError", fits |-> {}]
                 ELSE LET tested_by == test_folds(fold, y)
                          splits == cv_splits(fold.n_splits, tested_by)
                          cv_results ==
                            [index \in Rows(classifiers) |->
                                LET accuracy_scores == cross_val_score(classifiers[index], splits, y, "accuracy")
                                    precision_scores == cross_val_score(classifiers[index], splits, y, "precision")
                                    recall_scores == cross_val_score(classifiers[index], splits, y, "recall")
                                IN  [Classifier |-> classifiers[index],
                                     CVMeanAccuracy |-> Mean(accuracy_scores),
                                     CVMeanPrecision |-> Mean(precision_scores),
                                     CVMeanRecall |-> Mean(recall_scores),
                                     StdAccuracySquared |-> Variance(accuracy_scores),
                                     Accuracy |-> accuracy_scores,
                                     Precision |-> precision_scores,
                                     Recall |-> recall_scores]]
                      IN  [op |-> "cross_validation_plots", args |-> args,
                           raised |-> "none",
                           fits |-> fits_run(classifiers, Scorings, fold),
                           splits |-> splits,
                           cv_results |-> cv_results,
                           box_data |-> [index \in Rows(classifiers) |->
                                            IF metric = "Accuracy" THEN cv_results[index].Accuracy
                                            ELSE IF metric = "Precision" THEN cv_results[index].Precision
                                            ELSE cv_results[index].Recall]]
        /\ UNCHANGED <<http, frame, threshold_table>>

\* help_tool.py:396  cv=10
MatrixFolds == 10

\* help_tool.py:397  the matrix drawn for a classifier.
matrix_of_fold_average(y, y_pred) ==
    LET cm == confusion_matrix(y, y_pred)
    IN  [a \in DOMAIN cm |-> [b \in DOMAIN cm[a] |-> cm[a][b] \div MatrixFolds]]

matrix_of(y, y_pred) == confusion_matrix(y, y_pred)

\* help_tool.py:389-405
cross_validation_matrix(classifiers, classifier_names, y) ==
    LET args == [classifiers |-> classifiers, classifier_names |-> classifier_names, y |-> y,
                 fold |-> [cv |-> "int", n_splits |-> MatrixFolds]]
    IN  /\ ev' = IF split_raises(args.fold, y)
                 THEN [op |-> "cross_validation_matrix", args |-> args,
                       raised |-> "ValueError", fits |-> {}]
                 ELSE LET tested_by == test_folds(args.fold, y)
                          splits == cv_splits(MatrixFolds, tested_by)
                          y_pred == [i \in Rows(classifiers) |->
                                        cross_val_predict(classifiers[i], splits, tested_by, y)]
                      IN  [op |-> "cross_validation_matrix", args |-> args,
                           raised |-> "none",
                           fits |-> fits_run(classifiers, {"predict"}, args.fold),
                           splits |-> splits,
                           y_pred |-> y_pred,
                           cm |-> [i \in Rows(classifiers) |-> matrix_of(y, y_pred[i])],
                           titles |-> classifier_names]
        /\ UNCHANGED <<http, frame, threshold_table>>

\* The fold argument of cross_validation_plots: a fold count, or a KFold.
Folds == [cv : {"int", "KFold"}, n_splits : 2..MaxFold]

\* Data sets for the ten-fold matrix: imbalanced, as the stroke data are.
Imbalanced(n) ==
    {y \in Labels(n) : Count(y, {0}) <= MaxExtraRows \/ Count(y, {1}) <= MaxExtraRows}

InitCV ==
    /\ http = NoRequest
    /\ ev = NoCall
    /\ frame = NoCall
    /\ threshold_table \in ThresholdTables

NextCV ==
    \/ /\ ev.op = "none"
       /\ \E classifiers \in ClassifierLists, fold \in Folds, n \in 2..MaxCvRows :
            \E y \in Labels(n) :
                cross_validation_plots(classifiers, fold, y, "Recall")
    \/ /\ ev.op = "none"
       /\ \E classifiers \in ClassifierLists, n \in MatrixFolds..(MatrixFolds + MaxExtraRows) :
            \E y \in Imbalanced(n) :
                cross_validation_matrix(classifiers, classifiers, y)
    \/ NextCell

SpecCV == InitCV /\ [][NextCV]_vars


(***************************************************************************)
(* Claims about the cross-validation helpers                               *)
(***************************************************************************)
CrossValidating == ev.op \in {"cross_validation_plots", "cross_validation_matrix"}
CrossValidated == CrossValidating /\ ev.raised = "none"
MatrixDrawn == ev.op = "cross_validation_matrix" /\ ev.raised = "none"

Total(cm) ==
    LET RECURSIVE RowSum(_, _)
        RowSum(row, k) == IF k = 0 THEN 0 ELSE row[k] + RowSum(row, k - 1)
        RECURSIVE Sum(_)
        Sum(a) == IF a = 0 THEN 0 ELSE RowSum(cm[a], Len(cm[a])) + Sum(a - 1)
    IN  Sum(Len(cm))

Selected ==
    /\ ev.op = "model_selection_recall"
    /\ ev.raised = "none"

\* The call under way computed a ROC curve (either helper).
Scored ==
    /\ ev.op \in {"model_selection_recall", "plot_roc_curve"}
    /\ ev.raised = "none"

ScoredRows == IF ev.op = "plot_roc_curve" THEN ev.args.z ELSE ev.args.z_validation
ScoredTruth == IF ev.op = "plot_roc_curve" THEN ev.args.y_train ELSE ev.args.y_validation

\* TP / (TP + FN), the positives counted in the ground truth.
RecallAgainstTruth(predicted, truth) ==
    Ratio(Cardinality({i \in Rows(truth) : truth[i] = 1 /\ predicted[i] = 1}),
          Count(truth, {1}))

C6_ScoreByCapability ==
    /\ Scored =>
        ev.y_prob = [i \in Rows(ScoredRows) |->
                        IF ev.args.kind \in {"margin", "both"}
                        THEN MarginOf[ScoredRows[i]]
                        ELSE ProbaOf[ScoredRows[i]]]
    /\ (ev.op \in {"model_selection_recall", "plot_roc_curve"} /\ ev.raised # "none") =>
        ev.args.kind = "neither"

\* A classifier with both methods was scored by its margin.
C6_Witness ==
    /\ Selected
    /\ ev.args.kind = "both"
    /\ ev.y_prob = decision_function(ev.args.z_validation)
    /\ ev.y_prob # predict_proba_1(ev.args.z_validation)

\* The AUC as a rank statistic: of the (positive, negative) pairs of rows,
\* the share the classifier orders rightly, a tie counting one half.
RankAuc(truth, level) ==
    LET pairs == {p \in Rows(truth) \X Rows(truth) : truth[p[1]] = 1 /\ truth[p[2]] = 0}
        won == Cardinality({p \in pairs : level[p[1]] > level[p[2]]})
        tied == Cardinality({p \in pairs : level[p[1]] = level[p[2]]})
    IN  IF pairs = {} THEN NaN ELSE Ratio(2 * won + tied, 2 * Cardinality(pairs))

\* C7: the AUC reported depends on the ground truth and on the order the
\* continuous scores put the rows in, and on nothing else: score vectors of
\* the same rank order (the margins and the probabilities of one
\* classifier) give the same AUC, whatever labels a threshold would make
\* of them.
C7_AucFromRanks ==
    Scored =>
        /\ ev.roc_auc = RankAuc(ScoredTruth, ScoredRows)
        /\ ev.roc_auc = auc(roc_curve(ScoredTruth, decision_function(ScoredRows)))
        /\ ev.roc_auc = auc(roc_curve(ScoredTruth, predict_proba_1(ScoredRows)))

\* Three rows scored at three levels, both classes present: binarizing at
\* 0.5 and at 0.545455 gives different labels, and the AUC is that of the
\* ranks, different from the AUC of either set of labels.
C7_Witness ==
    /\ Selected
    /\ ev.args.kind = "proba"
    /\ {ev.args.z_validation[i] : i \in Rows(ev.args.z_validation)} = Levels
    /\ ev.roc_auc # NaN
    /\ ev.roc_auc # auc(roc_curve(ev.args.y_validation, ev.recall_true[2]))
    /\ ev.recall_true[2] # predicted_labels_thresholded("proba", ev.args.z_validation)

NoPositive(v) == \A i \in Rows(v) : v[i] = 0

C10_RecallAgainstTruth ==
    Selected =>
        /\ ~NoPositive(ev.args.y_train) =>
            ev.train_recall = RecallAgainstTruth(ev.args.predict_train, ev.args.y_train)
        /\ ~NoPositive(ev.args.y_validation) =>
            ev.validation_recall =
                RecallAgainstTruth(predicted_labels(ev.args.kind, ev.args.z_validation),
                                   ev.args.y_validation)

(***************************************************************************)
(* help_tool.py: dummy_columns                                             *)
(*                                                                         *)
(* A column name is the sequence of its pieces, cut so that every          *)
(* occurrence of "_Yes" and of "_No" in the name is a piece of its own:    *)
(* 'Phone_No' is <<"Phone", "_No">>, 'Visit_Yesterday' is                  *)
(* <<"Visit", "_Yes", "terday">>.                                          *)
(***************************************************************************)
\* What the data frame may hold: two categorical features and three
\* numeric columns.
Catalog ==
    <<[name |-> <<"Ever_married">>, dtype |-> "object", categories |-> {"No", "Yes"}],
      [name |-> <<"Gender">>, dtype |-> "object", categories |-> {"Female", "Male"}],
      [name |-> <<"Age">>, dtype |-> "int", categories |-> {67}],
      [name |-> <<"Phone", "_No">>, dtype |-> "int", categories |-> {5}],
      [name |-> <<"Visit", "_Yes", "terday">>, dtype |-> "int", categories |-> {1}]>>

\* get_dummies lists the categories of a column in sorted order and names
\* the indicator column <column>_<category>.
CategoryOrder == <<"Female", "Male", "No", "Yes">>
SuffixOf == [Female |-> "_Female", Male |-> "_Male", No |-> "_No", Yes |-> "_Yes"]

RECURSIVE Flatten(_)
Flatten(ss) == IF ss = <<>> THEN <<>> ELSE Head(ss) \o Flatten(Tail(ss))

\* help_tool.py:45-46  pd.get_dummies(df[feature_list]).astype(int): the
\* columns that are not of object dtype pass unchanged and come first; every
\* object column gives one 0/1 indicator column per category it holds.
get_dummies(sub) ==
    LET IsObject(col) == col.dtype = "object"
        IsOther(col) == col.dtype # "object"
        Indicators(col) ==
            LET Present(cat) == \E r \in Rows(col.values) : col.values[r] = cat
                cats == SelectSeq(CategoryOrder, Present)
            IN  [k \in Rows(cats) |->
                    [name |-> col.name \o <<SuffixOf[cats[k]]>>,
                     dtype |-> "int",
                     values |-> [r \in Rows(col.values) |->
                                    IF col.values[r] = cats[k] THEN 1 ELSE 0]]]
        objects == SelectSeq(sub, IsObject)
    IN  SelectSeq(sub, IsOther) \o Flatten([k \in Rows(objects) |-> Indicators(objects[k])])

\* help_tool.py:53  col.endswith('_No')
EndsWithNo(name) == name # <<>> /\ name[Len(name)] = "_No"

\* help_tool.py:54  col.replace('_Yes', '')
ReplaceYes(name) == LET Kept(piece) == piece # "_Yes" IN SelectSeq(name, Kept)

\* help_tool.py:43-55
dummy_columns(df, feature_list) ==
    LET Listed(col) == col.name \in {feature_list[k] : k \in Rows(feature_list)}
        Unlisted(col) == ~Listed(col)
        NotNo(col) == ~EndsWithNo(col.name)
        df_dummies == get_dummies(SelectSeq(df, Listed))
        concat == df \o df_dummies
        dropped == SelectSeq(concat, Unlisted)
        without_no == SelectSeq(dropped, NotNo)
        renamed == [c \in Rows(without_no) |->
                       [without_no[c] EXCEPT !.name = ReplaceYes(without_no[c].name)]]
    IN  /\ frame' = [op |-> "dummy_columns",
                     args |-> [df |-> df, feature_list |-> feature_list],
                     result |-> renamed]
        /\ UNCHANGED <<http, ev, threshold_table>>

\* The notebook goes on to its next cell.
NextFrameCell ==
    /\ frame.op # "none"
    /\ frame' = NoCall
    /\ UNCHANGED <<http, ev, threshold_table>>

\* The data frames: some of the catalog's columns, in the catalog's order,
\* each with a value per row.
Frames ==
    LET Columns(k) ==
            {[name |-> Catalog[k].name, dtype |-> Catalog[k].dtype, values |-> v] :
                v \in [1..MaxFrameRows -> Catalog[k].categories]}
        RECURSIVE Build(_)
        Build(k) ==
            IF k > Len(Catalog) THEN {<<>>}
            ELSE LET rest == Build(k + 1)
                 IN  rest \cup {<<col>> \o tail : col \in Columns(k), tail \in rest}
    IN  Build(1)

\* The feature lists: some of the frame's column names, in the frame's order.
FeatureLists(df) ==
    LET RECURSIVE Pick(_)
        Pick(k) ==
            IF k > Len(df) THEN {<<>>}
            ELSE LET rest == Pick(k + 1)
                 IN  rest \cup {<<df[k].name>> \o tail : tail \in rest}
    IN  Pick(1) \ {<<>>}

InitFrame ==
    /\ http = NoRequest
    /\ ev = NoCall
    /\ frame = NoCall
    /\ threshold_table = <<>>

NextFrame ==
    \/ /\ frame.op = "none"
       /\ \E df \in Frames : \E feature_list \in FeatureLists(df) :
            dummy_columns(df, feature_list)
    \/ NextFrameCell

SpecFrame == InitFrame /\ [][NextFrame]_vars

\* C9 as claimed: in the frame dummy_columns returns, every listed feature
\* is gone and its indicator columns are there in its place (the one of
\* 'Yes' under the feature's own name, the one of 'No' left out), and every
\* column that was not listed is still there under its name.
C9_DummiesReplaceFeatures ==
    frame.op = "dummy_columns" =>
        LET df == frame.args.df
            listed == {frame.args.feature_list[k] : k \in Rows(frame.args.feature_list)}
            result == frame.result
        IN  /\ \A c \in Rows(df) :
                df[c].name \notin listed =>
                    \E d \in Rows(result) :
                        result[d].name = df[c].name /\ result[d].values = df[c].values
            /\ \A c \in Rows(df) :
                (df[c].name \in listed /\ df[c].dtype = "object") =>
                    /\ \A d \in Rows(result) : result[d].name # df[c].name \o <<"_No">>
                    /\ (\E r \in Rows(df[c].values) : df[c].values[r] = "Yes") =>
                        \E d \in Rows(result) :
                            /\ result[d].name = df[c].name
                            /\ result[d].values =
                                 [r \in Rows(df[c].values) |->
                                     IF df[c].values[r] = "Yes" THEN 1 ELSE 0]
                    /\ \A cat \in {"Female", "Male"} :
                        (\E r \in Rows(df[c].values) : df[c].values[r] = cat) =>
                            \E d \in Rows(result) :
                                result[d].name = df[c].name \o <<SuffixOf[cat]>>

====
